---- MODULE Spec2Model ----
(***************************************************************************)
(* A model of the GW2 price tracker: the copper -> g/s/c currency helpers   *)
(* (currency.py), the breakout recommendations and their page              *)
(* (pages/recommendations.py), the snapshot built for the external         *)
(* summarizer, the call of that service and the page around it             *)
(* (pages/ai_recs.py), run_query (db.py), the settings file (settings.py), *)
(* and the mean-reversion policy and the trend percentage of the           *)
(* specification.                                                          *)
(*                                                                         *)
(* Strings are sequences of one-character strings, so that formatting is   *)
(* computed digit by digit as Python's f-strings compute it.  Percentages  *)
(* rounded to one decimal are integers counted in tenths (16.7 is 167).    *)
(***************************************************************************)
EXTENDS Integers, Sequences, FiniteSets, TLC

VARIABLES
    copper,       \* the argument handed to the currency helpers
    gsc,          \* the tuple copper_to_gsc returned, <<>> before the call
    text,         \* the string format_gsc returned, <<>> before the call
    df,           \* the batch _load_data returned: a sequence of rows
    buy_df,       \* the frame _get_buy_candidates returned
    sell_df,      \* the frame _get_sell_candidates returned
    snapshot,     \* the rows _build_ai_snapshot wrote to the CSV
    pc,           \* the position of the running page
    trend,        \* the windows handed to the trend helper and its result
    signals,      \* the rows of the trading-signals query joined to the items
    dvol,         \* what fetch_daily_volumes does: its rows, or "raise"
    st,           \* the messages the page showed, in order
    api_key,      \* the setting gemini_api_key
    button,       \* whether the Generate button was pressed in this run
    session_state,\* st.session_state: a function on the keys present
    requests,     \* the generate_content requests sent, with their outcome
    analysis,     \* what _call_gemini returned, <<>> before it returns
    engine,       \* the engine cached by get_engine and the ones disposed
    trace,        \* the steps of the running run_query call, in order
    outcome,      \* what run_query gave its caller, <<>> while it runs
    file,         \* the content of the settings file
    loaded        \* what the last load_settings gave its caller

currencyVars == <<copper, gsc, text>>
frameVars == <<df, buy_df, sell_df, snapshot>>
trendVars == <<trend>>
loadVars == <<signals, dvol, st>>
geminiVars == <<api_key, button, session_state, requests, analysis>>
dbVars == <<engine, trace, outcome>>
settingsVars == <<file, loaded>>

vars == <<currencyVars, frameVars, pc, trendVars, loadVars, geminiVars,
          dbVars, settingsVars>>

\* the parts of the program a specification leaves at rest
IdleCurrency == copper = 0 /\ gsc = <<>> /\ text = <<>>
IdleFrames == df = <<>> /\ buy_df = <<>> /\ sell_df = <<>> /\ snapshot = <<>>
IdleTrend == trend = <<>>
IdleLoad == signals = <<>> /\ dvol = <<>> /\ st = <<>>
IdleGemini ==
    /\ api_key = "" /\ button = FALSE /\ session_state = <<>>
    /\ requests = <<>> /\ analysis = <<>>
IdleDb == engine = <<>> /\ trace = <<>> /\ outcome = <<>>
IdleSettings == file = <<>> /\ loaded = <<>>

----------------------------------------------------------------------------
(* Bounds of the model.                                                    *)

\* every amount 0..MaxCopper is formatted, plus the large amounts below
MaxCopper == 20100

\* amounts whose gold part needs none, one and two thousands separators
BigCopper == {123456, 999999, 9999999, 10000000, 12345678, 99999999,
              1234567890, 1000000000, 2000000000}

Amounts == (0 .. MaxCopper) \cup BigCopper

----------------------------------------------------------------------------
(* currency.py                                                             *)

\* Python's str() of one decimal digit
DigitChar(d) ==
    CASE d = 0 -> "0" [] d = 1 -> "1" [] d = 2 -> "2" [] d = 3 -> "3"
      [] d = 4 -> "4" [] d = 5 -> "5" [] d = 6 -> "6" [] d = 7 -> "7"
      [] d = 8 -> "8" [] d = 9 -> "9"

\* f"{n}" of a non-negative integer: its decimal digits, no padding
RECURSIVE IntStr(_)
IntStr(n) ==
    IF n < 10 THEN <<DigitChar(n)>>
    ELSE IntStr(n \div 10) \o <<DigitChar(n % 10)>>

\* the three digits of a group after a thousands separator (zero padded)
Group3(n) ==
    <<DigitChar(n \div 100), DigitChar((n \div 10) % 10), DigitChar(n % 10)>>

\* f"{n:,}" of a non-negative integer: digits grouped in threes by commas
RECURSIVE IntStrComma(_)
IntStrComma(n) ==
    IF n < 1000 THEN IntStr(n)
    ELSE IntStrComma(n \div 1000) \o <<",">> \o Group3(n % 1000)

\* a mutant: the copper remainder taken modulo 10
copper_to_gsc_mod10(amount) ==
    <<amount \div 10000, (amount % 10000) \div 100, amount % 10>>

\* copper_to_gsc: (gold, silver, rem)
copper_to_gsc(amount) ==
    LET gold   == amount \div 10000
        silver == (amount % 10000) \div 100
        rem    == amount % 100
    IN  <<gold, silver, rem>>

\* " ".join(parts)
RECURSIVE JoinSpace(_)
JoinSpace(parts) ==
    IF Len(parts) = 0 THEN <<>>
    ELSE IF Len(parts) = 1 THEN parts[1]
    ELSE parts[1] \o <<" ">> \o JoinSpace(Tail(parts))

\* a mutant: silver shown only when it is non-zero
format_gsc_no_zero_silver(amount) ==
    LET t == copper_to_gsc(amount)
        p1 == IF t[1] # 0 THEN <<IntStrComma(t[1]) \o <<"g">>>> ELSE <<>>
        p2 == IF t[2] # 0 THEN p1 \o <<IntStr(t[2]) \o <<"s">>>> ELSE p1
    IN  JoinSpace(p2 \o <<IntStr(t[3]) \o <<"c">>>>)

\* a mutant: the last part printed from the silver value
format_gsc_copper_from_silver(amount) ==
    LET t == copper_to_gsc(amount)
        p1 == IF t[1] # 0 THEN <<IntStrComma(t[1]) \o <<"g">>>> ELSE <<>>
        p2 == IF t[2] # 0 \/ t[1] # 0 THEN p1 \o <<IntStr(t[2]) \o <<"s">>>>
              ELSE p1
    IN  JoinSpace(p2 \o <<IntStr(t[2]) \o <<"c">>>>)

\* format_gsc: the parts list grown by the three appends, then joined
format_gsc(amount) ==
    LET t == copper_to_gsc(amount)
        g == t[1]
        s == t[2]
        c == t[3]
        parts0 == <<>>
        parts1 == IF g # 0 THEN Append(parts0, IntStrComma(g) \o <<"g">>)
                  ELSE parts0
        parts2 == IF s # 0 \/ g # 0 THEN Append(parts1, IntStr(s) \o <<"s">>)
                  ELSE parts1
        parts3 == Append(parts2, IntStr(c) \o <<"c">>)
    IN  JoinSpace(parts3)

----------------------------------------------------------------------------
(* The calls of the currency helpers.                                      *)

InitCurrency ==
    /\ copper \in Amounts
    /\ gsc = <<>>
    /\ text = <<>>
    /\ df = <<>>
    /\ buy_df = <<>>
    /\ sell_df = <<>>
    /\ snapshot = <<>>
    /\ IdleTrend /\ IdleLoad /\ IdleGemini /\ IdleDb /\ IdleSettings
    /\ pc = "currency"

CallCopperToGsc ==
    /\ pc = "currency"
    /\ gsc = <<>>
    /\ gsc' = copper_to_gsc(copper)
    /\ UNCHANGED <<copper, text, df, buy_df, sell_df, snapshot, pc>>
    /\ UNCHANGED <<trendVars, loadVars, geminiVars, dbVars, settingsVars>>

CallFormatGsc ==
    /\ pc = "currency"
    /\ text = <<>>
    /\ text' = format_gsc(copper)
    /\ UNCHANGED <<copper, gsc, df, buy_df, sell_df, snapshot, pc>>
    /\ UNCHANGED <<trendVars, loadVars, geminiVars, dbVars, settingsVars>>

NextCurrency == CallCopperToGsc \/ CallFormatGsc

SpecCurrency == InitCurrency /\ [][NextCurrency]_vars

----------------------------------------------------------------------------
(* The batch: the columns of _load_data's frame that the modelled          *)
(* functions read.  Prices and counts are non-negative integers (copper);  *)
(* buy_z_score is counted in tenths; item_name is "None" for a row the     *)
(* left merge with the item list did not match.  The other columns pass    *)
(* through unread and are left out.                                        *)

Row(name, count, ls, hms, lb, hmb, avgbuy, z, sold, epu) ==
    [item_name |-> name, current_count |-> count,
     latest_sell |-> ls, hist_min_sell |-> hms,
     latest_buy |-> lb, hist_max_buy |-> hmb,
     avg_buy_30d |-> avgbuy, buy_z_score |-> z,
     avg_daily_sold |-> sold, expected_profit_per_unit |-> epu]

\* longest batch drawn from RecRows
MaxShortRows == 2
\* longest batch drawn from TopRows
MaxRows == 6

Counts == {0, 3}
\* <<latest_sell, hist_min_sell>>
BuyPairs == {<<5000, 6000>>, <<5999, 6000>>, <<1, 6000>>, <<6000, 6000>>,
             <<100, 0>>, <<15, 16>>}
\* <<latest_buy, hist_max_buy>>
SellPairs == {<<7000, 6000>>, <<6000, 6000>>, <<5000, 0>>}

\* rows that vary in every column the recommendations read
RecRows ==
    {Row("Item", c, b[1], b[2], s[1], s[2], 4000, -15, 50, 250) :
        c \in Counts, b \in BuyPairs, s \in SellPairs}

\* rows for the ranking: equal and different percentages on both sides
TopRows ==
    {Row("Item", 3, 5000, 6000, 7000, 6000, 4000, -15, 50, 250),
     Row("Item", 3, 1, 6000, 6001, 6000, 4000, -15, 50, 250),
     Row("Item", 3, 0, 6000, 9000, 3000, 4000, -15, 50, 250),
     Row("Item", 3, 6000, 6000, 7000, 6000, 4000, -15, 50, 250)}

SeqsUpTo(S, n) == UNION {[1 .. k -> S] : k \in 0 .. n}

Batches == SeqsUpTo(RecRows, MaxShortRows) \cup SeqsUpTo(TopRows, MaxRows)

----------------------------------------------------------------------------
(* pandas helpers                                                          *)

\* a mutant: the percentage cut to one decimal instead of rounded
round1_pct_trunc(num, den) == (1000 * num) \div den

\* (num / den * 100).round(1) in tenths, den > 0: the nearest tenth, a tie
\* going to the even tenth as numpy's rint does.  The float error of the
\* division is far below the distance of any non-tie from a tie for
\* prices below 10^7, so only exact ties could round either way.
round1_pct(num, den) ==
    LET scaled == 1000 * num
        q == scaled \div den
        r == scaled % den
    IN  IF 2 * r < den THEN q
        ELSE IF 2 * r > den THEN q + 1
        ELSE IF q % 2 = 0 THEN q ELSE q + 1

\* rows without the first row equal to v
RECURSIVE RemoveOne(_, _)
RemoveOne(rows, v) ==
    IF rows = <<>> THEN <<>>
    ELSE IF Head(rows) = v THEN Tail(rows)
    ELSE <<Head(rows)>> \o RemoveOne(Tail(rows), v)

\* a mutant: ascending order
RECURSIVE sort_values_asc(_, _)
sort_values_asc(rows, col) ==
    IF rows = <<>> THEN {<<>>}
    ELSE LET low == {rows[i] : i \in {j \in 1 .. Len(rows) :
                        \A k \in 1 .. Len(rows) : rows[k][col] >= rows[j][col]}}
         IN  UNION {{<<v>> \o t : t \in sort_values_asc(RemoveOne(rows, v), col)}
                        : v \in low}

\* df.sort_values(col, ascending=False): pandas' default sort is not
\* stable, so rows with equal keys may come out in any order; the set of
\* every arrangement of rows that is non-increasing in col
RECURSIVE sort_values_desc(_, _)
sort_values_desc(rows, col) ==
    IF rows = <<>> THEN {<<>>}
    ELSE LET top == {rows[i] : i \in {j \in 1 .. Len(rows) :
                        \A k \in 1 .. Len(rows) : rows[k][col] <= rows[j][col]}}
         IN  UNION {{<<v>> \o t : t \in sort_values_desc(RemoveOne(rows, v), col)}
                        : v \in top}

\* df.head(n)
head(rows, n) == SubSeq(rows, 1, IF Len(rows) < n THEN Len(rows) ELSE n)

----------------------------------------------------------------------------
(* pages/recommendations.py                                                *)

\* the number of rows each recommendation list keeps: .head(5)
TopN == 5

\* a mutant: a price at the floor counted as below it
BuyMask_le(r) == r.hist_min_sell > 0 /\ r.latest_sell <= r.hist_min_sell

BuyMask(r) == r.hist_min_sell > 0 /\ r.latest_sell < r.hist_min_sell

WithBelowFloorPct(r) ==
    [below_floor_pct |->
        round1_pct(r.hist_min_sell - r.latest_sell, r.hist_min_sell)] @@ r

\* the filtered copy with its below_floor_pct column
BuyFrame(rows) ==
    LET kept == SelectSeq(rows, BuyMask)
    IN  [i \in 1 .. Len(kept) |-> WithBelowFloorPct(kept[i])]

\* _get_buy_candidates: every frame the call can return
_get_buy_candidates(rows) ==
    {head(sorted, TopN) : sorted \in sort_values_desc(BuyFrame(rows), "below_floor_pct")}

\* a mutant: the holding not checked
SellMask_no_count(r) ==
    r.hist_max_buy > 0 /\ r.latest_buy > r.hist_max_buy

SellMask(r) ==
    r.current_count > 0 /\ r.hist_max_buy > 0 /\ r.latest_buy > r.hist_max_buy

WithAboveCeilingPct(r) ==
    [above_ceiling_pct |->
        round1_pct(r.latest_buy - r.hist_max_buy, r.hist_max_buy)] @@ r

\* the filtered copy with its above_ceiling_pct column
SellFrame(rows) ==
    LET kept == SelectSeq(rows, SellMask)
    IN  [i \in 1 .. Len(kept) |-> WithAboveCeilingPct(kept[i])]

\* _get_sell_candidates: every frame the call can return
_get_sell_candidates(rows) ==
    {head(sorted, TopN) : sorted \in sort_values_desc(SellFrame(rows), "above_ceiling_pct")}

----------------------------------------------------------------------------
(* pages/ai_recs.py                                                        *)

\* a mutant: the profit of one unit, not of the holding
total_sell_profit_per_unit(r) ==
    LET raw == r.latest_sell * 85 - r.avg_buy_30d * 100
    IN  (IF raw < 0 THEN 0 ELSE raw) \div 100

\* a mutant: the product cast to an integer without the clip at 0
total_sell_profit_no_clip(r) ==
    ((r.latest_sell * 85 - r.avg_buy_30d * 100) * r.current_count) \div 100

\* ((latest_sell * 0.85 - avg_buy_30d) * current_count).clip(lower=0)
\* .astype(int), computed in hundredths of a copper
total_sell_profit(r) ==
    LET raw == (r.latest_sell * 85 - r.avg_buy_30d * 100) * r.current_count
        clipped == IF raw < 0 THEN 0 ELSE raw
    IN  clipped \div 100

\* df["total_sell_profit"] = ...: the column is added to the caller's frame
WithTotalSellProfit(rows) ==
    [i \in 1 .. Len(rows) |->
        [total_sell_profit |-> total_sell_profit(rows[i])] @@ rows[i]]

\* format_gsc(int(v)) if pd.notna(v) and v > 0 else "0c"
FormatPrice(v) == IF v > 0 THEN format_gsc(v) ELSE <<"0", "c">>

\* one row of the out frame
SnapshotRow(r) ==
    [item_name |-> r.item_name,
     qty |-> r.current_count,
     latest_sell |-> FormatPrice(r.latest_sell),
     latest_buy |-> FormatPrice(r.latest_buy),
     avg_buy_30d |-> FormatPrice(r.avg_buy_30d),
     buy_z_score |-> r.buy_z_score,
     expected_profit_per_unit |-> FormatPrice(r.expected_profit_per_unit),
     avg_daily_sold |-> r.avg_daily_sold,
     total_sell_profit |-> FormatPrice(r.total_sell_profit)]

HasName(r) == r.item_name # "None"

\* a mutant: rows outside the buy rules of the prompt dropped as well
SnapshotRows_filtered(rows) ==
    LET Keep(r) == /\ r.item_name # "None"
                   /\ r.buy_z_score <= -10
                   /\ r.avg_daily_sold >= 10
                   /\ r.expected_profit_per_unit > 0
        kept == SelectSeq(rows, Keep)
    IN  [i \in 1 .. Len(kept) |-> SnapshotRow(kept[i])]

\* the rows of the CSV: out.dropna(subset=["item_name"])
SnapshotRows(rows) ==
    LET named == SelectSeq(rows, HasName)
    IN  [i \in 1 .. Len(named) |-> SnapshotRow(named[i])]

----------------------------------------------------------------------------
(* The calls on a loaded batch: page_recommendations calls                 *)
(* _get_buy_candidates and then _get_sell_candidates on the same frame;    *)
(* page_ai_recommendations calls _build_ai_snapshot.                       *)

Init ==
    /\ copper = 0
    /\ gsc = <<>>
    /\ text = <<>>
    /\ df \in Batches
    /\ buy_df = <<>>
    /\ sell_df = <<>>
    /\ snapshot = <<>>
    /\ IdleTrend /\ IdleLoad /\ IdleGemini /\ IdleDb /\ IdleSettings
    /\ pc = "loaded"

GetBuyCandidates ==
    /\ pc = "loaded"
    /\ buy_df' \in _get_buy_candidates(df)
    /\ pc' = "buy"
    /\ UNCHANGED <<copper, gsc, text, df, sell_df, snapshot>>
    /\ UNCHANGED <<trendVars, loadVars, geminiVars, dbVars, settingsVars>>

GetSellCandidates ==
    /\ pc = "buy"
    /\ sell_df' \in _get_sell_candidates(df)
    /\ pc' = "sell"
    /\ UNCHANGED <<copper, gsc, text, df, buy_df, snapshot>>
    /\ UNCHANGED <<trendVars, loadVars, geminiVars, dbVars, settingsVars>>

BuildAiSnapshot ==
    /\ pc = "loaded"
    /\ df' = WithTotalSellProfit(df)
    /\ snapshot' = SnapshotRows(df')
    /\ pc' = "snapshot"
    /\ UNCHANGED <<copper, gsc, text, buy_df, sell_df>>
    /\ UNCHANGED <<trendVars, loadVars, geminiVars, dbVars, settingsVars>>

Next == GetBuyCandidates \/ GetSellCandidates \/ BuildAiSnapshot

Spec == Init /\ [][Next]_vars

----------------------------------------------------------------------------
(* Reading a formatted string: used to state the claims, not by the code.  *)

\* the characters of a string as one TLA+ string
RECURSIVE AsString(_)
AsString(chars) ==
    IF chars = <<>> THEN "" ELSE Head(chars) \o AsString(Tail(chars))

\* the pieces of chars between single spaces (a piece may be empty)
RECURSIVE SplitSpace(_)
SplitSpace(chars) ==
    IF \A i \in 1 .. Len(chars) : chars[i] # " " THEN <<chars>>
    ELSE LET k == CHOOSE i \in 1 .. Len(chars) :
                      chars[i] = " " /\ \A j \in 1 .. i - 1 : chars[j] # " "
         IN  <<SubSeq(chars, 1, k - 1)>>
                 \o SplitSpace(SubSeq(chars, k + 1, Len(chars)))

IsDigitChar(ch) == ch \in {"0", "1", "2", "3", "4", "5", "6", "7", "8", "9"}

DigitVal(ch) == CHOOSE d \in 0 .. 9 : DigitChar(d) = ch

\* the number a run of digits and thousands separators denotes
RECURSIVE ReadInt(_)
ReadInt(chars) ==
    IF chars = <<>> THEN 0
    ELSE LET last == chars[Len(chars)]
             rest == SubSeq(chars, 1, Len(chars) - 1)
         IN  IF last = "," THEN ReadInt(rest)
             ELSE ReadInt(rest) * 10 + DigitVal(last)

\* the unit letter a piece ends with, "" for an empty piece
UnitOf(piece) == IF piece = <<>> THEN "" ELSE piece[Len(piece)]

\* the unit letters of the pieces of a formatted string, in order
UnitsOf(chars) ==
    LET pieces == SplitSpace(chars)
    IN  [i \in 1 .. Len(pieces) |-> UnitOf(pieces[i])]

\* the value printed before unit u, 0 when no piece carries u
ReadUnit(chars, u) ==
    LET pieces == SplitSpace(chars)
        hits   == {i \in 1 .. Len(pieces) : UnitOf(pieces[i]) = u}
    IN  IF hits = {} THEN 0
        ELSE LET i == CHOOSE h \in hits : TRUE
             IN  ReadInt(SubSeq(pieces[i], 1, Len(pieces[i]) - 1))

\* the (gold, silver, copper) read back from a formatted string
ReadBack(chars) ==
    <<ReadUnit(chars, "g"), ReadUnit(chars, "s"), ReadUnit(chars, "c")>>

\* every piece is one or more digits (with separators) and a unit letter
WellFormedPieces(chars) ==
    \A i \in 1 .. Len(SplitSpace(chars)) :
        LET piece == SplitSpace(chars)[i]
        IN  /\ Len(piece) >= 2
            /\ IsDigitChar(piece[1])
            /\ \A j \in 1 .. Len(piece) - 1 :
                   IsDigitChar(piece[j]) \/ piece[j] = ","

----------------------------------------------------------------------------
(* C1: for every non-negative amount copper_to_gsc returns                 *)
(* (amount // 10000, (amount % 10000) // 100, amount % 100): the middle    *)
(* and minor parts lie in 0..99 and the three parts recombine to amount.   *)
C1_Decompose ==
    gsc # <<>> =>
        /\ Len(gsc) = 3
        /\ gsc[1] = copper \div 10000
        /\ gsc[2] = (copper % 10000) \div 100
        /\ gsc[3] = copper % 100
        /\ gsc[1] >= 0
        /\ 0 <= gsc[2] /\ gsc[2] < 100
        /\ 0 <= gsc[3] /\ gsc[3] < 100
        /\ gsc[1] * 10000 + gsc[2] * 100 + gsc[3] = copper

C1_Witness == copper = 12345678 /\ gsc = <<1234, 56, 78>>

(* C2: format_gsc emits the g part only when gold is non-zero, the s part  *)
(* exactly when gold or silver is non-zero, and always the c part, in that *)
(* order, separated by single spaces; 123456, 12345, 99, 45 and 100 give   *)
(* "12g 34s 56c", "1g 23s 45c", "99c", "45c" and "1s 0c".                  *)
C2_Format ==
    text # <<>> =>
        LET g == copper \div 10000
            s == (copper % 10000) \div 100
        IN  /\ UnitsOf(text) =
                  (IF g # 0 THEN <<"g">> ELSE <<>>)
                      \o (IF g # 0 \/ s # 0 THEN <<"s">> ELSE <<>>)
                      \o <<"c">>
            /\ WellFormedPieces(text)
            /\ copper = 123456 => AsString(text) = "12g 34s 56c"
            /\ copper = 12345 => AsString(text) = "1g 23s 45c"
            /\ copper = 99 => AsString(text) = "99c"
            /\ copper = 45 => AsString(text) = "45c"
            /\ copper = 100 => AsString(text) = "1s 0c"

C2_Witness == copper = 10005 /\ AsString(text) = "1g 0s 5c"

(* C3: format round-trips: formatting the amount recombined from           *)
(* copper_to_gsc's parts gives the same string, the parts read back from   *)
(* the string (an omitted part read as 0) are copper_to_gsc's parts, and   *)
(* no other amount formats to the same string.                             *)
Recombine(t) == t[1] * 10000 + t[2] * 100 + t[3]

\* amounts near copper in each denomination, and the large amounts
Neighbours(a) ==
    {b \in {a - 10000, a - 100, a - 10, a - 1, a + 1, a + 10, a + 100,
            a + 10000, a \div 10, a \div 100, a \div 1000} : b >= 0}
        \cup BigCopper

C3_RoundTrip ==
    (text # <<>> /\ gsc # <<>>) =>
        /\ format_gsc(Recombine(gsc)) = text
        /\ ReadBack(text) = gsc
        /\ Recombine(ReadBack(text)) = copper
        /\ \A b \in Neighbours(copper) : format_gsc(b) = text => b = copper

C3_Witness ==
    /\ copper = 10000000
    /\ gsc = <<1000, 0, 0>>
    /\ AsString(text) = "1,000g 0s 0c"
    /\ ReadBack(text) = <<1000, 0, 0>>

----------------------------------------------------------------------------
(* Helpers of the claims about the recommendation lists.                   *)

Abs(x) == IF x < 0 THEN -x ELSE x

Min2(a, b) == IF a < b THEN a ELSE b

\* how many rows of a frame equal v
Count(rows, v) == Cardinality({i \in 1 .. Len(rows) : rows[i] = v})

\* a row without one of its columns
DropCol(r, col) == [f \in DOMAIN r \ {col} |-> r[f]]

\* pct (in tenths) is num / den * 100 rounded to the nearest tenth
NearestTenth(pct, num, den) == 2 * Abs(pct * den - 1000 * num) <= den

BuyReturned == pc \in {"buy", "sell"}

\* what C4 says of one returned row, but for the range of the percentage
C4_RowOk(r) ==
    /\ r.hist_min_sell > 0
    /\ r.latest_sell < r.hist_min_sell
    /\ \E j \in 1 .. Len(df) : df[j] = DropCol(r, "below_floor_pct")
    /\ NearestTenth(r.below_floor_pct,
                    r.hist_min_sell - r.latest_sell, r.hist_min_sell)

\* a list shorter than TopN holds every row that meets both conditions
C4_AllCandidatesListed ==
    Len(buy_df) < TopN =>
        \A j \in 1 .. Len(df) :
            (df[j].hist_min_sell > 0 /\ df[j].latest_sell < df[j].hist_min_sell)
                => \E i \in 1 .. Len(buy_df) :
                       DropCol(buy_df[i], "below_floor_pct") = df[j]

(* C4 as stated: every row _get_buy_candidates returns has                 *)
(* hist_min_sell > 0 and latest_sell < hist_min_sell, and its              *)
(* below_floor_pct, the gap as a percentage of the floor rounded to one    *)
(* decimal, is greater than 0 and at most 100, and 100 only when           *)
(* latest_sell = 0.                                                        *)
C4_Original ==
    BuyReturned =>
        /\ C4_AllCandidatesListed
        /\ \A i \in 1 .. Len(buy_df) :
              /\ C4_RowOk(buy_df[i])
              /\ 0 < buy_df[i].below_floor_pct
              /\ buy_df[i].below_floor_pct <= 1000
              /\ buy_df[i].below_floor_pct = 1000 => buy_df[i].latest_sell = 0

(* C4 amended: every row _get_buy_candidates returns has                   *)
(* hist_min_sell > 0 and latest_sell < hist_min_sell, no other row is      *)
(* returned, and its below_floor_pct is the gap as a percentage of the     *)
(* floor rounded to one decimal, which lies between 0.0 and 100.0, both    *)
(* included: the rounding gives 0.0 for a gap under 0.05 % and 100.0 for   *)
(* a positive latest_sell under 0.05 % of the floor.                       *)
C4_BuyCandidates ==
    BuyReturned =>
        /\ C4_AllCandidatesListed
        /\ \A i \in 1 .. Len(buy_df) :
              /\ C4_RowOk(buy_df[i])
              /\ 0 <= buy_df[i].below_floor_pct
              /\ buy_df[i].below_floor_pct <= 1000

C4_Witness ==
    /\ pc = "buy"
    /\ Len(buy_df) = 2
    /\ buy_df[1].latest_sell = 1
    /\ buy_df[1].below_floor_pct = 1000
    /\ buy_df[2].latest_sell = 5999
    /\ buy_df[2].below_floor_pct = 0

(* C5: every row _get_sell_candidates returns has current_count > 0,       *)
(* hist_max_buy > 0 and latest_buy > hist_max_buy, and the list has at     *)
(* most 5 rows.                                                            *)
C5_SellList ==
    pc = "sell" =>
        /\ Len(sell_df) <= 5
        /\ \A i \in 1 .. Len(sell_df) :
              /\ sell_df[i].current_count > 0
              /\ sell_df[i].hist_max_buy > 0
              /\ sell_df[i].latest_buy > sell_df[i].hist_max_buy
              /\ \E j \in 1 .. Len(df) :
                     df[j] = DropCol(sell_df[i], "above_ceiling_pct")

\* six rows pass the filter and five are returned
C5_Witness ==
    /\ pc = "sell"
    /\ Len(df) = 6
    /\ Len(sell_df) = 5
    /\ Cardinality({j \in 1 .. Len(df) : df[j].latest_buy > df[j].hist_max_buy
                                          /\ df[j].current_count > 0}) = 6

\* list is the first TopN of frame ranked by col, highest first
IsTopOf(list, frame, col) ==
    /\ Len(list) = Min2(5, Len(frame))
    /\ \A i \in 1 .. Len(list) - 1 : list[i][col] >= list[i + 1][col]
    /\ \A i \in 1 .. Len(list) : Count(list, list[i]) <= Count(frame, list[i])
    /\ \A j \in 1 .. Len(frame) :
          Count(list, frame[j]) < Count(frame, frame[j])
              => \A i \in 1 .. Len(list) : frame[j][col] <= list[i][col]

(* C6: each list of Policy B is sorted non-increasing by its percentage,   *)
(* holds min(5, number of eligible rows) rows, and no eligible row left    *)
(* out has a strictly greater percentage than a row of the list.           *)
C6_TopFive ==
    /\ BuyReturned => IsTopOf(buy_df, BuyFrame(df), "below_floor_pct")
    /\ pc = "sell" => IsTopOf(sell_df, SellFrame(df), "above_ceiling_pct")

\* more than five eligible rows on each side, of different percentages;
\* the row with the lowest sell percentage is left out
C6_Witness ==
    /\ pc = "sell"
    /\ Len(BuyFrame(df)) > 5
    /\ Len(SellFrame(df)) > 5
    /\ Len(buy_df) = 5
    /\ Len(sell_df) = 5
    /\ buy_df[1].below_floor_pct > buy_df[5].below_floor_pct
    /\ sell_df[1].above_ceiling_pct > sell_df[5].above_ceiling_pct
    /\ \E j \in 1 .. Len(df) :
           /\ df[j].latest_buy = 6001
           /\ \A i \in 1 .. 5 : sell_df[i].latest_buy # 6001

(* C7: a row with latest_sell = 5000 and hist_min_sell = 6000 is a buy     *)
(* candidate of Policy B with below_floor_pct = 16.7: it is returned with  *)
(* that value unless five rows at or above 16.7 fill the list.             *)
C7_Scenario ==
    BuyReturned =>
        /\ \A j \in 1 .. Len(df) :
              (df[j].latest_sell = 5000 /\ df[j].hist_min_sell = 6000) =>
                  \/ \E i \in 1 .. Len(buy_df) :
                         /\ DropCol(buy_df[i], "below_floor_pct") = df[j]
                         /\ buy_df[i].below_floor_pct = 167
                  \/ /\ Len(buy_df) = 5
                     /\ \A i \in 1 .. 5 : buy_df[i].below_floor_pct >= 167
        /\ \A i \in 1 .. Len(buy_df) :
              (buy_df[i].latest_sell = 5000 /\ buy_df[i].hist_min_sell = 6000)
                  => buy_df[i].below_floor_pct = 167

C7_Witness ==
    /\ pc = "buy"
    /\ Len(df) = 1
    /\ df[1].latest_sell = 5000
    /\ df[1].hist_min_sell = 6000
    /\ Len(buy_df) = 1
    /\ buy_df[1].below_floor_pct = 167

\* the batch with every holding set to zero
ZeroCount(rows) ==
    [i \in 1 .. Len(rows) |-> [rows[i] EXCEPT !.current_count = 0]]

(* C8: a row with current_count = 0 is never in the sell list, its         *)
(* total_sell_profit in the snapshot is 0, and the buy list is the one the *)
(* same batch gives with every current_count set to 0.                     *)
C8_ZeroCount ==
    /\ pc = "sell" =>
          \A i \in 1 .. Len(sell_df) : sell_df[i].current_count # 0
    /\ BuyReturned => ZeroCount(buy_df) \in _get_buy_candidates(ZeroCount(df))
    /\ pc = "snapshot" =>
          /\ \A i \in 1 .. Len(df) :
                df[i].current_count = 0 => df[i].total_sell_profit = 0
          /\ \A i \in 1 .. Len(snapshot) :
                snapshot[i].qty = 0 =>
                    AsString(snapshot[i].total_sell_profit) = "0c"

\* a row held zero times whose price is above cost after tax, and a row
\* held three times with a profit
C8_Witness ==
    /\ pc = "snapshot"
    /\ Len(df) = 2
    /\ df[1].current_count = 0
    /\ df[1].latest_sell * 85 > df[1].avg_buy_30d * 100
    /\ df[1].total_sell_profit = 0
    /\ AsString(snapshot[1].total_sell_profit) = "0c"
    /\ df[2].current_count = 3
    /\ AsString(snapshot[2].total_sell_profit) = "7s 50c"

----------------------------------------------------------------------------
(* The snapshot for the summarizer, on batches that vary in the columns    *)
(* the prompt's buy rules name.                                            *)

\* longest batch drawn from AiRows
MaxAiRows == 2

AiRows ==
    {Row(name, c, 5000, 6000, 5000, 6000, 4000, z, sold, epu) :
        name \in {"None", "Item"}, c \in Counts, z \in {-15, -10, -5},
        sold \in {9, 10}, epu \in {-100, 250}}

InitAi ==
    /\ copper = 0
    /\ gsc = <<>>
    /\ text = <<>>
    /\ df \in SeqsUpTo(AiRows, MaxAiRows)
    /\ buy_df = <<>>
    /\ sell_df = <<>>
    /\ snapshot = <<>>
    /\ IdleTrend /\ IdleLoad /\ IdleGemini /\ IdleDb /\ IdleSettings
    /\ pc = "loaded"

NextAi == BuildAiSnapshot

SpecAi == InitAi /\ [][NextAi]_vars

\* the batch position of the k-th row that has an item name
KthNamed(k) ==
    CHOOSE j \in 1 .. Len(df) :
        /\ df[j].item_name # "None"
        /\ Cardinality({m \in 1 .. j : df[m].item_name # "None"}) = k

----------------------------------------------------------------------------
(* Policy A: mean reversion against the 30-day average.  No file of the    *)
(* source computes it (the dashboard page only totals and lists the        *)
(* inventory that fetch_opportunities returns), so it is modelled from     *)
(* sections 4.2 and 4.3 of the specification.  A row of the order book     *)
(* has a sell price exactly when it has sell listings, and a positive      *)
(* latest price makes the 30-day average positive.                         *)

\* longest batch drawn from PolicyARows
MaxPolicyARows == 2

\* the minimum order-book depth of section 4.2
MinSellListings == 10

\* <<latest_buy, avg_buy_30d>>
PolicyABuySides == {<<0, 0>>, <<0, 10000>>, <<8000, 10000>>, <<9999, 10000>>,
                    <<10000, 10000>>, <<4000, 5000>>}
\* <<latest_sell, avg_sell_30d, sell_listings>>
PolicyASellSides == {<<0, 0, 0>>, <<9000, 9500, 9>>, <<9000, 9500, 10>>,
                     <<9000, 9500, 15>>}

PolicyARows ==
    {[current_count |-> c, latest_buy |-> b[1], avg_buy_30d |-> b[2],
      latest_sell |-> a[1], avg_sell_30d |-> a[2], sell_listings |-> a[3]] :
        c \in Counts, b \in PolicyABuySides, a \in PolicyASellSides}

\* section 4.2: valid for price-ratio computation
PolicyAValid(r) ==
    /\ r.latest_sell > 0
    /\ r.latest_buy > 0
    /\ r.avg_sell_30d > 0
    /\ r.avg_buy_30d > 0

\* a mutant: the order-book depth not checked
PolicyALiquidToBuy_any(r) == TRUE

\* section 4.2: liquid enough to buy
PolicyALiquidToBuy(r) == r.sell_listings >= MinSellListings

\* section 4.3: discount and discount_pct; the percentage is the fraction
\* num / den, kept exact
PolicyAWithDiscount(r) ==
    [discount |-> r.avg_buy_30d - r.latest_buy,
     discount_pct |-> [num |-> 100 * (r.avg_buy_30d - r.latest_buy),
                       den |-> r.avg_buy_30d]] @@ r

PolicyACandidate(r) ==
    PolicyAValid(r) /\ PolicyALiquidToBuy(r) /\ r.avg_buy_30d - r.latest_buy > 0

PolicyABuyFrame(rows) ==
    LET kept == SelectSeq(rows, PolicyACandidate)
    IN  [i \in 1 .. Len(kept) |-> PolicyAWithDiscount(kept[i])]

\* a's discount_pct is at least b's (both denominators are positive)
PolicyAPctGE(a, b) ==
    a.discount * b.avg_buy_30d >= b.discount * a.avg_buy_30d

\* section 4.3: rank by discount_pct descending; equal percentages in any
\* order
RECURSIVE PolicyARanked(_)
PolicyARanked(rows) ==
    IF rows = <<>> THEN {<<>>}
    ELSE LET top == {rows[i] : i \in {j \in 1 .. Len(rows) :
                        \A k \in 1 .. Len(rows) : PolicyAPctGE(rows[j], rows[k])}}
         IN  UNION {{<<v>> \o t : t \in PolicyARanked(RemoveOne(rows, v))}
                        : v \in top}

PolicyABuyList(rows) == PolicyARanked(PolicyABuyFrame(rows))

InitPolicyA ==
    /\ copper = 0
    /\ gsc = <<>>
    /\ text = <<>>
    /\ df \in SeqsUpTo(PolicyARows, MaxPolicyARows)
    /\ buy_df = <<>>
    /\ sell_df = <<>>
    /\ snapshot = <<>>
    /\ IdleTrend /\ IdleLoad /\ IdleGemini /\ IdleDb /\ IdleSettings
    /\ pc = "loaded"

RankPolicyABuy ==
    /\ pc = "loaded"
    /\ buy_df' \in PolicyABuyList(df)
    /\ pc' = "policy_a_buy"
    /\ UNCHANGED <<copper, gsc, text, df, sell_df, snapshot>>
    /\ UNCHANGED <<trendVars, loadVars, geminiVars, dbVars, settingsVars>>

NextPolicyA == RankPolicyABuy

SpecPolicyA == InitPolicyA /\ [][NextPolicyA]_vars

(* C9: every row of Policy A's buy list has discount_pct > 0 with          *)
(* discount = avg_buy_30d - latest_buy and discount_pct = discount /       *)
(* avg_buy_30d * 100, the list is sorted descending by discount_pct, no    *)
(* row with sell_listings < 10 is in it, and an item with latest_buy =     *)
(* 8000, avg_buy_30d = 10000 and sell_listings = 15 is in it with          *)
(* discount 2000 and discount_pct 20.0.                                    *)
C9_PolicyABuy ==
    pc = "policy_a_buy" =>
        /\ \A i \in 1 .. Len(buy_df) :
              LET r == buy_df[i]
              IN  /\ r.discount = r.avg_buy_30d - r.latest_buy
                  /\ r.discount_pct.den = r.avg_buy_30d
                  /\ r.discount_pct.num = 100 * r.discount
                  /\ r.discount_pct.den > 0
                  /\ r.discount_pct.num > 0
                  /\ ~(r.sell_listings < 10)
                  /\ \E j \in 1 .. Len(df) :
                         df[j] = DropCol(DropCol(r, "discount"), "discount_pct")
        /\ \A i \in 1 .. Len(buy_df) - 1 :
              buy_df[i].discount * buy_df[i + 1].avg_buy_30d
                  >= buy_df[i + 1].discount * buy_df[i].avg_buy_30d
        /\ \A j \in 1 .. Len(df) :
              (/\ df[j].latest_buy = 8000
               /\ df[j].avg_buy_30d = 10000
               /\ df[j].sell_listings = 15) =>
                  \E i \in 1 .. Len(buy_df) :
                      /\ DropCol(DropCol(buy_df[i], "discount"), "discount_pct")
                             = df[j]
                      /\ buy_df[i].discount = 2000
                      /\ buy_df[i].discount_pct.num
                             = 20 * buy_df[i].discount_pct.den

\* the scenario's item ranked above a smaller discount
C9_Witness ==
    /\ pc = "policy_a_buy"
    /\ Len(buy_df) = 2
    /\ buy_df[1].latest_buy = 8000
    /\ buy_df[1].sell_listings = 15
    /\ buy_df[1].discount = 2000
    /\ buy_df[1].discount_pct = [num |-> 200000, den |-> 10000]
    /\ buy_df[2].latest_buy = 9999
    /\ buy_df[2].current_count = 0

----------------------------------------------------------------------------
(* The position profit of the snapshot, on batches whose prices lie on     *)
(* both sides of the break-even point latest_sell * 0.85 = avg_buy_30d.    *)

MaxProfitRows == 2

ProfitRows ==
    {Row("Item", c, ls, 6000, 4000, 6000, avg, -15, 50, 250) :
        c \in {0, 1, 3}, ls \in {0, 4706, 5000, 5001}, avg \in {0, 4000, 4251}}

InitProfit ==
    /\ IdleCurrency
    /\ df \in SeqsUpTo(ProfitRows, MaxProfitRows)
    /\ buy_df = <<>>
    /\ sell_df = <<>>
    /\ snapshot = <<>>
    /\ IdleTrend /\ IdleLoad /\ IdleGemini /\ IdleDb /\ IdleSettings
    /\ pc = "loaded"

NextProfit == BuildAiSnapshot

SpecProfit == InitProfit /\ [][NextProfit]_vars

\* the position profit before truncation, in hundredths of a copper:
\* max(0, (latest_sell * (1 - 0.15) - avg_buy_30d) * current_count) * 100
PositionProfit100(r) ==
    LET p == (r.latest_sell * (100 - 15) - r.avg_buy_30d * 100) * r.current_count
    IN  IF p > 0 THEN p ELSE 0

\* C11: on every row of the frame _build_ai_snapshot worked on,
\* total_sell_profit is max(0, (latest_sell * 0.85 - avg_buy_30d) *
\* current_count) truncated to an integer: the one integer p with
\* p <= that value < p + 1.  It is never negative, and it is 0 when
\* current_count = 0 or latest_sell * 0.85 <= avg_buy_30d.
C11_PositionProfit ==
    pc = "snapshot" =>
        \A i \in 1 .. Len(df) :
            LET r == df[i]
                p == r.total_sell_profit
            IN  /\ p \in Nat
                /\ p * 100 <= PositionProfit100(r)
                /\ PositionProfit100(r) < (p + 1) * 100
                /\ (r.current_count = 0 \/ r.latest_sell * 85 <= r.avg_buy_30d * 100)
                       => p = 0

\* a holding of 3 sold at 5001 against 4000 earns 752.55, kept as 752, next
\* to a holding whose sale would lose money and whose profit is clipped to 0
C11_Witness ==
    /\ pc = "snapshot"
    /\ \E i \in 1 .. Len(df) :
           /\ df[i].current_count = 3 /\ df[i].latest_sell = 5001
           /\ df[i].avg_buy_30d = 4000 /\ df[i].total_sell_profit = 752
    /\ \E i \in 1 .. Len(df) :
           /\ df[i].current_count = 3 /\ df[i].latest_sell = 5000
           /\ df[i].avg_buy_30d = 4251 /\ df[i].total_sell_profit = 0

----------------------------------------------------------------------------
(* The trend percentage of the specification (section 4.4).  The queries   *)
(* of db.py return the window aggregates only; the helper itself is        *)
(* modelled from the specification.  An absent value is the empty tuple,   *)
(* a present value v is <<v>>.                                             *)

None == <<>>

Some(v) == <<v>>

\* the largest window aggregate tried
MaxWindow == 12

\* a mutant: a prior of zero or no prior read as "no change"
trend_pct_no_change(current, prior) ==
    IF prior = None \/ prior = Some(0) THEN Some(0)
    ELSE Some(round1_pct(current - prior[1], prior[1]))

\* (current - prior) / prior * 100 rounded to one decimal, in tenths;
\* absent when prior is zero or absent
trend_pct(current, prior) ==
    IF prior = None \/ prior = Some(0) THEN None
    ELSE Some(round1_pct(current - prior[1], prior[1]))

InitTrend ==
    /\ IdleCurrency /\ IdleFrames
    /\ \E c \in 0 .. MaxWindow, p \in {None} \cup {Some(v) : v \in 0 .. MaxWindow} :
           trend = [current |-> c, prior |-> p, trend_pct |-> None]
    /\ IdleLoad /\ IdleGemini /\ IdleDb /\ IdleSettings
    /\ pc = "trend"

CallTrendPct ==
    /\ pc = "trend"
    /\ trend' = [trend EXCEPT !.trend_pct = trend_pct(trend.current, trend.prior)]
    /\ pc' = "trend_done"
    /\ UNCHANGED <<currencyVars, frameVars, loadVars, geminiVars, dbVars,
                   settingsVars>>

NextTrend == CallTrendPct

SpecTrend == InitTrend /\ [][NextTrend]_vars

----------------------------------------------------------------------------
(* pages/recommendations.py: _load_data and page_recommendations.          *)
(* pages/ai_recs.py has the same _load_data, with a longer list of         *)
(* numeric columns.                                                        *)

\* the most rows the signals query returns
MaxSignalRows == 2

\* one row of signals.merge(items): the query of row i is item i; a NULL
\* of the database, or an item without a row in items, is None
SignalRow(id, count, ls, hms, hmb) ==
    [item_id |-> id, item_name |-> "Item", current_count |-> count,
     latest_sell |-> ls, hist_min_sell |-> hms,
     latest_buy |-> Some(7000), hist_max_buy |-> hmb,
     avg_buy_30d |-> Some(4000), buy_z_score |-> Some(-15),
     expected_profit_per_unit |-> Some(250)]

\* latest_sell and hist_min_sell: below the floor, no floor, a floor of 0
SignalBuySides ==
    {<<Some(5000), Some(6000)>>, <<Some(5000), None>>, <<Some(0), None>>,
     <<Some(5000), Some(0)>>}

\* current_count and hist_max_buy, under a latest_buy of 7000
SignalSellSides ==
    {<<Some(3), Some(6000)>>, <<Some(3), None>>, <<Some(3), Some(0)>>,
     <<None, Some(6000)>>}

SignalBatches ==
    UNION {{b \in [1 .. k ->
                     {SignalRow(id, ss[1], bs[1], bs[2], ss[2]) :
                         id \in 1 .. k, bs \in SignalBuySides,
                         ss \in SignalSellSides}] :
               \A i \in 1 .. k : b[i].item_id = i} : k \in 0 .. MaxSignalRows}

\* what the two queries of _load_data can give: an exception, or rows
SignalOutcomes ==
    {[raises |-> TRUE, exc |-> "connection refused", rows |-> <<>>]}
    \cup {[raises |-> FALSE, exc |-> "", rows |-> b] : b \in SignalBatches}

\* the rows of fetch_daily_volumes: at most one per item (GROUP BY item_id),
\* an average over no values being NULL
VolumeRows ==
    {[item_id |-> 1, avg_daily_sold |-> Some(50), avg_daily_bought |-> Some(40)],
     [item_id |-> 2, avg_daily_sold |-> None, avg_daily_bought |-> Some(7)]}

VolumeOutcomes ==
    {[raises |-> TRUE, rows |-> {}]}
    \cup {[raises |-> FALSE, rows |-> v] : v \in SUBSET VolumeRows}

\* a mutant: a missing number read as 1
to_numeric_fillna1(v) == IF v = None THEN 1 ELSE v[1]

\* pd.to_numeric(df[col], errors="coerce").fillna(0), and .fillna(0) of the
\* volume columns
to_numeric_fillna(v) == IF v = None THEN 0 ELSE v[1]

\* a mutant: an inner join, and no rows when the volumes cannot be fetched
with_daily_volumes_inner(rows, d) ==
    LET Has(r) == \E v \in d.rows : v.item_id = r.item_id
        kept == IF d.raises THEN <<>> ELSE SelectSeq(rows, Has)
    IN  [i \in 1 .. Len(kept) |->
            LET v == CHOOSE v \in d.rows : v.item_id = kept[i].item_id
            IN  [avg_daily_sold |-> to_numeric_fillna(v.avg_daily_sold),
                 avg_daily_bought |-> to_numeric_fillna(v.avg_daily_bought)]
                @@ kept[i]]

\* the try block of _load_data: the left merge with the volumes and the
\* fillna(0) of its two columns, or both columns 0 when anything raised
with_daily_volumes(rows, d) ==
    [i \in 1 .. Len(rows) |->
        LET found == {v \in d.rows : v.item_id = rows[i].item_id}
            sold == IF d.raises \/ found = {} THEN None
                    ELSE (CHOOSE v \in found : TRUE).avg_daily_sold
            bought == IF d.raises \/ found = {} THEN None
                      ELSE (CHOOSE v \in found : TRUE).avg_daily_bought
        IN  [avg_daily_sold |-> to_numeric_fillna(sold),
             avg_daily_bought |-> to_numeric_fillna(bought)] @@ rows[i]]

\* the loop over numeric_cols
numeric(r) ==
    [f \in DOMAIN r |->
        IF f \in {"current_count", "latest_sell", "hist_min_sell", "latest_buy",
                  "hist_max_buy", "avg_buy_30d", "buy_z_score",
                  "expected_profit_per_unit"}
        THEN to_numeric_fillna(r[f]) ELSE r[f]]

\* _load_data, the two queries having returned rows
_load_data(rows, d) ==
    LET merged == with_daily_volumes(rows, d)
    IN  [i \in 1 .. Len(merged) |-> numeric(merged[i])]

\* a mutant: a frame never taken as empty
empty_never(frame) == FALSE

\* df.empty
empty(frame) == Len(frame) = 0

Message(kind, body) == [kind |-> kind, text |-> body]

\* the two entries of the module: the page, or _load_data and the two
\* candidate functions called on their own
InitPage ==
    /\ IdleCurrency /\ IdleFrames /\ IdleTrend
    /\ signals \in SignalOutcomes
    /\ dvol \in VolumeOutcomes
    /\ st = <<>>
    /\ IdleGemini /\ IdleDb /\ IdleSettings
    /\ pc = "start"

\* df = _load_data(), called on its own
LoadData ==
    /\ pc = "start"
    /\ ~signals.raises
    /\ df' = _load_data(signals.rows, dvol)
    /\ pc' = "loaded"
    /\ UNCHANGED <<currencyVars, buy_df, sell_df, snapshot, trendVars,
                   loadVars, geminiVars, dbVars, settingsVars>>

\* _load_data() called on its own while the database is down
LoadDataRaises ==
    /\ pc = "start"
    /\ signals.raises
    /\ pc' = "raised"
    /\ UNCHANGED <<currencyVars, frameVars, trendVars, loadVars, geminiVars,
                   dbVars, settingsVars>>

\* page_recommendations: try: df = _load_data()
PageLoadData ==
    /\ pc = "start"
    /\ ~signals.raises
    /\ df' = _load_data(signals.rows, dvol)
    /\ pc' = "page_loaded"
    /\ UNCHANGED <<currencyVars, buy_df, sell_df, snapshot, trendVars,
                   loadVars, geminiVars, dbVars, settingsVars>>

\* except Exception as exc: st.error(...); return
PageLoadError ==
    /\ pc = "start"
    /\ signals.raises
    /\ st' = Append(st, Message("error",
                 "Failed to load data from the database: " \o signals.exc))
    /\ pc' = "page_done"
    /\ UNCHANGED <<currencyVars, frameVars, trendVars, signals, dvol,
                   geminiVars, dbVars, settingsVars>>

\* if df.empty: st.warning(...); return
PageWarnEmpty ==
    /\ pc = "page_loaded"
    /\ empty(df)
    /\ st' = Append(st, Message("warning", "No trading signal data available."))
    /\ pc' = "page_done"
    /\ UNCHANGED <<currencyVars, frameVars, trendVars, signals, dvol,
                   geminiVars, dbVars, settingsVars>>

\* the rest of the page: both lists, each shown or replaced by st.info
PageRender ==
    /\ pc = "page_loaded"
    /\ ~empty(df)
    /\ buy_df' \in _get_buy_candidates(df)
    /\ sell_df' \in _get_sell_candidates(df)
    /\ st' = st \o
          <<IF empty(buy_df') THEN Message("info", "No items below floor.")
            ELSE Message("expanders", "buy"),
            IF empty(sell_df') THEN Message("info", "No items above ceiling.")
            ELSE Message("expanders", "sell")>>
    /\ pc' = "page_done"
    /\ UNCHANGED <<currencyVars, df, snapshot, trendVars, signals, dvol,
                   geminiVars, dbVars, settingsVars>>

NextPage ==
    \/ LoadData \/ LoadDataRaises \/ GetBuyCandidates \/ GetSellCandidates
    \/ PageLoadData \/ PageLoadError \/ PageWarnEmpty \/ PageRender

SpecPage == InitPage /\ [][NextPage]_vars

Loaded == pc \in {"loaded", "buy", "sell", "page_loaded"} \/
          (pc = "page_done" /\ ~signals.raises)

\* C13: _get_buy_candidates and _get_sell_candidates called on a batch of
\* zero rows return frames of zero rows, and page_recommendations on a
\* batch of zero rows shows its warning and nothing else, and returns:
\* no exception leaves it and no error is shown.
C13_EmptyBatch ==
    /\ (pc \in {"buy", "sell"} /\ Len(df) = 0) => Len(buy_df) = 0
    /\ (pc = "sell" /\ Len(df) = 0) => Len(sell_df) = 0
    /\ (pc = "page_done" /\ ~signals.raises /\ Len(signals.rows) = 0) =>
           /\ st = <<Message("warning", "No trading signal data available.")>>
           /\ Len(buy_df) = 0 /\ Len(sell_df) = 0
    /\ ~signals.raises => pc # "raised"

\* the page has run on a batch of zero rows and shown its warning
C13_Witness ==
    /\ pc = "page_done"
    /\ ~signals.raises
    /\ signals.rows = <<>>
    /\ df = <<>>
    /\ Len(st) = 1 /\ st[1].kind = "warning"

\* C14: no listed buy row has hist_min_sell = 0 and no listed sell row has
\* hist_max_buy = 0; an item whose hist_min_sell was missing or 0 in the
\* query is not in the buy list, one whose hist_max_buy was missing or 0
\* is not in the sell list; and every row a percentage is computed on has
\* a non-zero denominator.
C14_ZeroDenominator ==
    /\ \A k \in 1 .. Len(buy_df) : buy_df[k].hist_min_sell > 0
    /\ \A k \in 1 .. Len(sell_df) : sell_df[k].hist_max_buy > 0
    /\ Loaded =>
           \A i \in 1 .. Len(signals.rows) :
               LET raw == signals.rows[i]
               IN  /\ raw.hist_min_sell \in {None, Some(0)} =>
                          \A k \in 1 .. Len(buy_df) :
                              buy_df[k].item_id # raw.item_id
                   /\ raw.hist_max_buy \in {None, Some(0)} =>
                          \A k \in 1 .. Len(sell_df) :
                              sell_df[k].item_id # raw.item_id
    /\ Loaded =>
           /\ \A k \in 1 .. Len(BuyFrame(df)) : BuyFrame(df)[k].hist_min_sell # 0
           /\ \A k \in 1 .. Len(SellFrame(df)) : SellFrame(df)[k].hist_max_buy # 0

\* item 1 has no floor and is listed to sell only; item 2 has a ceiling of
\* 0 and is listed to buy only
C14_Witness ==
    /\ pc = "page_done"
    /\ Len(signals.rows) = 2
    /\ signals.rows[1].hist_min_sell = None
    /\ signals.rows[1].hist_max_buy = Some(6000)
    /\ signals.rows[1].current_count = Some(3)
    /\ signals.rows[2].hist_min_sell = Some(6000)
    /\ signals.rows[2].hist_max_buy = Some(0)
    /\ Len(buy_df) = 1 /\ buy_df[1].item_id = 2
    /\ Len(sell_df) = 1 /\ sell_df[1].item_id = 1

\* C19: when fetch_daily_volumes raises, _load_data returns all the same:
\* its rows are the rows of the signals query, one for one, each with
\* avg_daily_sold = 0 and avg_daily_bought = 0, and the page shows no
\* error; when the fetch succeeds, a row without a volume record has 0 in
\* both columns.
C19_VolumesFail ==
    /\ (Loaded /\ dvol.raises) =>
           /\ Len(df) = Len(signals.rows)
           /\ \A i \in 1 .. Len(df) :
                  /\ df[i].item_id = signals.rows[i].item_id
                  /\ df[i].avg_daily_sold = 0
                  /\ df[i].avg_daily_bought = 0
    /\ (Loaded /\ ~dvol.raises) =>
           \A i \in 1 .. Len(df) :
               (\A v \in dvol.rows : v.item_id # df[i].item_id) =>
                   df[i].avg_daily_sold = 0 /\ df[i].avg_daily_bought = 0
    /\ (dvol.raises /\ ~signals.raises) =>
           /\ pc # "raised"
           /\ \A k \in 1 .. Len(st) : st[k].kind # "error"
           /\ pc \notin {"start", "raised"} => Loaded

\* the volumes could not be fetched and the page has rendered two rows
C19_Witness ==
    /\ pc = "page_done"
    /\ dvol.raises
    /\ Len(signals.rows) = 2
    /\ Len(df) = 2
    /\ df[1].avg_daily_sold = 0 /\ df[2].avg_daily_bought = 0
    /\ Len(st) = 2

----------------------------------------------------------------------------
\* C17: a call of _get_buy_candidates, _get_sell_candidates or
\* _build_ai_snapshot leaves the batch it was handed as it was: the same
\* rows, the same columns, the same values.
C17_SourceUnmutated ==
    [][(GetBuyCandidates \/ GetSellCandidates \/ BuildAiSnapshot) => df' = df]_vars

----------------------------------------------------------------------------
(* settings.py.  A dict is a function on the keys below, an absent key     *)
(* holding None; keys and values are strings, which json.dumps and         *)
(* json.loads give back as they were.                                      *)

Dict(timezone, gemini_api_key, theme) ==
    [timezone |-> timezone, gemini_api_key |-> gemini_api_key, theme |-> theme]

_DEFAULTS == Dict(Some("America/New_York"), Some(""), None)

EmptyDict == Dict(None, None, None)

\* the dicts handed to save_settings, and found in a file written earlier
Dicts ==
    {Dict(tz, key, theme) :
        tz \in {None, Some("UTC"), Some("America/New_York")},
        key \in {None, Some(""), Some("key")},
        theme \in {None, Some("dark")}}

\* the settings file: missing; the text of a JSON object; a text that is
\* no JSON; the text of a JSON value that is no object, such as []; bytes
\* that are no UTF-8 text
File(kind, data) == [kind |-> kind, data |-> data]

Files ==
    {File("object", d) : d \in Dicts}
    \cup {File(k, EmptyDict) : k \in {"missing", "invalid", "array", "undecodable"}}

\* _ensure_file: a missing file is written with the defaults
_ensure_file(f) == IF f.kind = "missing" THEN File("object", _DEFAULTS) ELSE f

\* data.setdefault(key, default) for every default
backfill(data) ==
    [k \in DOMAIN data |->
        IF data[k] = None /\ _DEFAULTS[k] # None THEN _DEFAULTS[k] ELSE data[k]]

\* what load_settings gives on a file that exists: json.loads raises
\* JSONDecodeError on a text that is no JSON and the defaults are
\* returned; read_text raises UnicodeDecodeError on bytes that are no
\* text, and setdefault raises AttributeError on a value that is no dict
load(f) ==
    IF f.kind = "object" THEN [raised |-> "", data |-> backfill(f.data)]
    ELSE IF f.kind = "invalid" THEN [raised |-> "", data |-> backfill(EmptyDict)]
    ELSE IF f.kind = "undecodable"
    THEN [raised |-> "UnicodeDecodeError", data |-> EmptyDict]
    ELSE [raised |-> "AttributeError", data |-> EmptyDict]

----------------------------------------------------------------------------
(* pages/ai_recs.py: the call of the summarization service.  The texts of  *)
(* a response are sequences of one-character strings.                      *)

IsSpace(ch) == ch \in {" ", "\n", "\t"}

\* str.strip()
RECURSIVE strip(_)
strip(chars) ==
    IF chars = <<>> THEN <<>>
    ELSE IF IsSpace(Head(chars)) THEN strip(Tail(chars))
    ELSE IF IsSpace(chars[Len(chars)]) THEN strip(SubSeq(chars, 1, Len(chars) - 1))
    ELSE chars

\* "\n".join(text_parts)
RECURSIVE JoinLines(_)
JoinLines(texts) ==
    IF texts = <<>> THEN <<>>
    ELSE IF Len(texts) = 1 THEN texts[1]
    ELSE texts[1] \o <<"\n">> \o JoinLines(Tail(texts))

\* a response of generate_content: None, or an object whose .text is a
\* string (empty when None) or raises ValueError, and whose candidates
\* hold parts, each a text that may be a thought
Response(is_none, txt, text_raises, parts) ==
    [is_none |-> is_none, text |-> txt, text_raises |-> text_raises,
     parts |-> parts]

Part(txt, thought) == [text |-> txt, thought |-> thought]

\* _extract_text: "" for None, response.text when it is there and not
\* empty, else the texts of the parts that are no thoughts, joined and
\* stripped
_extract_text(response) ==
    IF response.is_none THEN <<>>
    ELSE IF ~response.text_raises /\ response.text # <<>> THEN response.text
    ELSE LET Said(p) == p.text # <<>> /\ ~p.thought
             said == SelectSeq(response.parts, Said)
         IN  strip(JoinLines([i \in 1 .. Len(said) |-> said[i].text]))

\* the message returned when neither request gave a text
NoAnalysis ==
    <<"*", "N", "o", " ", "a", "n", "a", "l", "y", "s", "i", "s", " ",
      "w", "a", "s", " ", "g", "e", "n", "e", "r", "a", "t", "e", "d",
      ".", " ", "P", "l", "e", "a", "s", "e", " ", "t", "r", "y", " ",
      "a", "g", "a", "i", "n", ".", "*">>

\* a mutant: the empty text of the fallback returned as it is
fallback_text_raw(t) == t

\* _extract_text(response2) or "*No analysis was generated. ...*"
fallback_text(t) == IF t # <<>> THEN t ELSE NoAnalysis

\* the first position from i on that holds no whitespace
RECURSIVE SkipSpace(_, _)
SkipSpace(chars, i) ==
    IF i <= Len(chars) /\ IsSpace(chars[i]) THEN SkipSpace(chars, i + 1) ELSE i

\* the first position from i on that holds no digit
RECURSIVE SkipDigits(_, _)
SkipDigits(chars, i) ==
    IF i <= Len(chars) /\ IsDigitChar(chars[i]) THEN SkipDigits(chars, i + 1) ELSE i

\* the first position from i on that holds "|", Len + 1 when there is none
RECURSIVE NextBar(_, _)
NextBar(chars, i) ==
    IF i <= Len(chars) /\ chars[i] # "|" THEN NextBar(chars, i + 1) ELSE i

\* re.findall(r"\|\s*\d+\s*\|\s*([^|]+?)\s*\|", analysis) from position i:
\* a bar, a number, a bar, and at least one character before the next bar;
\* the group is kept stripped unless it is empty or "Item"
RECURSIVE FindNames(_, _)
FindNames(chars, i) ==
    IF i > Len(chars) THEN <<>>
    ELSE LET d == SkipSpace(chars, i + 1)
             e == SkipDigits(chars, d)
             m == SkipSpace(chars, e)
             q == NextBar(chars, m + 1)
             found == /\ chars[i] = "|"
                      /\ e > d
                      /\ m <= Len(chars) /\ chars[m] = "|"
                      /\ q <= Len(chars) /\ q > m + 1
         IN  IF ~found THEN FindNames(chars, i + 1)
             ELSE LET name == strip(SubSeq(chars, m + 1, q - 1))
                  IN  (IF name = <<>> \/ name = <<"I", "t", "e", "m">>
                       THEN <<>> ELSE <<name>>)
                      \o FindNames(chars, q + 1)

_parse_item_names(chars) == FindNames(chars, 1)

\* what one generate_content request can do: raise, or return a response
Raised(exc) ==
    [raises |-> TRUE, exc |-> exc, response |-> Response(TRUE, <<>>, FALSE, <<>>)]

Returned(response) == [raises |-> FALSE, exc |-> "", response |-> response]

TableText == <<"|", "1", "|", "A", "|">>

RequestOutcomes ==
    {Raised("quota exceeded"),
     Returned(Response(TRUE, <<>>, FALSE, <<>>)),
     Returned(Response(FALSE, TableText, FALSE, <<>>)),
     Returned(Response(FALSE, <<" ">>, FALSE, <<>>)),
     Returned(Response(FALSE, <<>>, FALSE, <<>>)),
     Returned(Response(FALSE, <<>>, TRUE, <<Part(<<" ">>, FALSE)>>)),
     Returned(Response(FALSE, <<>>, TRUE,
                       <<Part(<<"h", "m">>, TRUE), Part(TableText, FALSE)>>)),
     Returned(Response(FALSE, <<>>, FALSE, <<Part(<<"h", "m">>, TRUE)>>))}

\* the two configurations of generate_content
PrimaryRequest(o) ==
    [thinking_budget |-> 2048, tools |-> <<"google_search">>, outcome |-> o]

FallbackRequest(o) == [thinking_budget |-> 0, tools |-> <<>>, outcome |-> o]

\* the most rows of the batch the AI page loads
MaxAiPageRows == 2

\* the queries of the AI page: owned and not owned items, all with signals
AiSignalOutcomes ==
    {o \in SignalOutcomes :
        /\ Len(o.rows) <= MaxAiPageRows
        /\ \A i \in 1 .. Len(o.rows) :
               /\ o.rows[i].latest_sell = Some(5000)
               /\ o.rows[i].hist_min_sell = Some(6000)
               /\ o.rows[i].hist_max_buy = Some(6000)}

\* st.session_state: a key that is not present holds None
SessionState(analysis_, items, item_map) ==
    [rec_ai_analysis |-> analysis_, rec_ai_items |-> items,
     rec_item_map |-> item_map]

\* session state at the start of a run: nothing stored, or the analysis
\* stored by an earlier run of the page
OldAnalysis == <<"|", "7", "|", "O", "l", "d", "|">>

SessionStates ==
    {SessionState(None, None, None),
     SessionState(Some(OldAnalysis), Some(_parse_item_names(OldAnalysis)),
                  Some({<<"Old", 9>>}))}

\* dict(zip(df["item_name"], df["item_id"].astype(int))): a name met twice
\* keeps its last id
item_map_of(rows) ==
    {<<rows[i].item_name, rows[i].item_id>> :
        i \in {j \in 1 .. Len(rows) :
                  \A k \in j + 1 .. Len(rows) : rows[k].item_name # rows[j].item_name}}

InitAiPage ==
    /\ IdleCurrency /\ IdleFrames /\ IdleTrend
    /\ signals \in AiSignalOutcomes
    /\ dvol \in {v \in VolumeOutcomes : v.raises \/ v.rows = VolumeRows}
    /\ st = <<>>
    /\ api_key = ""
    /\ button \in BOOLEAN
    /\ session_state \in SessionStates
    /\ requests = <<>>
    /\ analysis = <<>>
    /\ IdleDb
    /\ file \in Files
    /\ loaded = <<>>
    /\ pc = "ai_get"

otherAiVars == <<currencyVars, buy_df, sell_df, trendVars, signals, dvol,
                 api_key, button, dbVars, settingsVars>>

\* api_key = get("gemini_api_key"): load_settings().get(key, default).  The
\* exception of load_settings, when it raises, leaves the page.
AiGetKey ==
    /\ pc = "ai_get"
    /\ file' = _ensure_file(file)
    /\ loaded' = [found |-> file] @@ load(file')
    /\ IF loaded'.raised # ""
       THEN pc' = "raised" /\ UNCHANGED api_key
       ELSE pc' = "ai_start" /\ api_key' = loaded'.data.gemini_api_key[1]
    /\ UNCHANGED <<currencyVars, frameVars, trendVars, loadVars, button,
                   session_state, requests, analysis, dbVars>>

\* if not api_key: st.warning(...); return
AiNoKey ==
    /\ pc = "ai_start"
    /\ api_key = ""
    /\ st' = Append(st, Message("warning", "No Gemini API key configured."))
    /\ pc' = "ai_done"
    /\ UNCHANGED <<otherAiVars, df, snapshot, session_state, requests, analysis>>

\* the button was not pressed in this run: on to the stored analysis
AiNoButton ==
    /\ pc = "ai_start"
    /\ api_key # ""
    /\ ~button
    /\ pc' = "ai_show"
    /\ UNCHANGED <<otherAiVars, df, snapshot, st, session_state, requests,
                   analysis>>

\* try: df = _load_data() except Exception as exc: st.error(...); return
AiLoadError ==
    /\ pc = "ai_start"
    /\ api_key # ""
    /\ button
    /\ signals.raises
    /\ st' = Append(st, Message("error", "Database error: " \o signals.exc))
    /\ pc' = "ai_done"
    /\ UNCHANGED <<otherAiVars, df, snapshot, session_state, requests, analysis>>

AiLoadData ==
    /\ pc = "ai_start"
    /\ api_key # ""
    /\ button
    /\ ~signals.raises
    /\ df' = _load_data(signals.rows, dvol)
    /\ pc' = "ai_loaded"
    /\ UNCHANGED <<otherAiVars, snapshot, st, session_state, requests, analysis>>

\* if df.empty: st.warning(...); return
AiWarnEmpty ==
    /\ pc = "ai_loaded"
    /\ empty(df)
    /\ st' = Append(st, Message("warning", "No trading signal data available."))
    /\ pc' = "ai_done"
    /\ UNCHANGED <<otherAiVars, df, snapshot, session_state, requests, analysis>>

\* st.session_state["rec_item_map"] = item_map, and inside the try:
\* csv_str = _build_ai_snapshot(df)
AiBuildSnapshot ==
    /\ pc = "ai_loaded"
    /\ ~empty(df)
    /\ session_state' = [session_state EXCEPT !.rec_item_map = Some(item_map_of(df))]
    /\ df' = WithTotalSellProfit(df)
    /\ snapshot' = SnapshotRows(df')
    /\ pc' = "ai_call"
    /\ UNCHANGED <<otherAiVars, st, requests, analysis>>

\* _call_gemini: the primary request.  It raises, or its text is returned,
\* or its text is empty and the fallback is next.
CallGeminiPrimary ==
    /\ pc = "ai_call"
    /\ \E o \in RequestOutcomes :
           /\ requests' = Append(requests, PrimaryRequest(o))
           /\ IF o.raises THEN pc' = "ai_except" /\ UNCHANGED analysis
              ELSE IF _extract_text(o.response) # <<>>
              THEN pc' = "ai_store" /\ analysis' = _extract_text(o.response)
              ELSE pc' = "ai_fallback" /\ UNCHANGED analysis
    /\ UNCHANGED <<otherAiVars, df, snapshot, st, session_state>>

\* _call_gemini: the fallback request
CallGeminiFallback ==
    /\ pc = "ai_fallback"
    /\ \E o \in RequestOutcomes :
           /\ requests' = Append(requests, FallbackRequest(o))
           /\ IF o.raises THEN pc' = "ai_except" /\ UNCHANGED analysis
              ELSE /\ pc' = "ai_store"
                   /\ analysis' = fallback_text(_extract_text(o.response))
    /\ UNCHANGED <<otherAiVars, df, snapshot, st, session_state>>

\* st.session_state["rec_ai_analysis"] = analysis
\* st.session_state["rec_ai_items"] = _parse_item_names(analysis)
AiStore ==
    /\ pc = "ai_store"
    /\ session_state' = [session_state EXCEPT
                            !.rec_ai_analysis = Some(analysis),
                            !.rec_ai_items = Some(_parse_item_names(analysis))]
    /\ pc' = "ai_show"
    /\ UNCHANGED <<otherAiVars, df, snapshot, st, requests, analysis>>

\* a mutant: the handler of the exception forgets the stored analysis
AiGeminiError_forgets ==
    /\ pc = "ai_except"
    /\ st' = Append(st, Message("error", "Gemini API error: "
                                  \o requests[Len(requests)].outcome.exc))
    /\ session_state' = [session_state EXCEPT !.rec_ai_analysis = None,
                                              !.rec_ai_items = None]
    /\ pc' = "ai_show"
    /\ UNCHANGED <<otherAiVars, df, snapshot, requests, analysis>>

\* except Exception as exc: st.error(f"Gemini API error: {exc}")
AiGeminiError ==
    /\ pc = "ai_except"
    /\ st' = Append(st, Message("error", "Gemini API error: "
                                  \o requests[Len(requests)].outcome.exc))
    /\ pc' = "ai_show"
    /\ UNCHANGED <<otherAiVars, df, snapshot, session_state, requests, analysis>>

\* the options of the chart selector: the parsed names the item map knows
chart_options(state) ==
    LET items == IF state.rec_ai_items = None THEN <<>> ELSE state.rec_ai_items[1]
        item_map == IF state.rec_item_map = None THEN {} ELSE state.rec_item_map[1]
        Known(name) == \E e \in item_map : e[1] = AsString(name)
    IN  SelectSeq(items, Known)

\* if "rec_ai_analysis" in st.session_state: the stored analysis is shown,
\* with the chart selector when it has options
AiShow ==
    /\ pc = "ai_show"
    /\ st' = IF session_state.rec_ai_analysis = None THEN st
             ELSE st \o <<Message("markdown", AsString(session_state.rec_ai_analysis[1]))>>
                     \o (IF chart_options(session_state) = <<>> THEN <<>>
                         ELSE <<Message("selectbox",
                                        AsString(chart_options(session_state)[1]))>>)
    /\ pc' = "ai_done"
    /\ UNCHANGED <<otherAiVars, df, snapshot, session_state, requests, analysis>>

NextAiPage ==
    \/ AiGetKey \/ AiNoKey \/ AiNoButton \/ AiLoadError \/ AiLoadData \/ AiWarnEmpty
    \/ AiBuildSnapshot \/ CallGeminiPrimary \/ CallGeminiFallback \/ AiStore
    \/ AiGeminiError \/ AiShow

SpecAiPage == InitAiPage /\ [][NextAiPage]_vars

\* the first request returned and _extract_text found no text in it
FirstEmpty ==
    /\ requests # <<>>
    /\ ~requests[1].outcome.raises
    /\ _extract_text(requests[1].outcome.response) = <<>>

\* _call_gemini has returned or raised
CallOver == requests # <<>> /\ pc \in {"ai_store", "ai_except", "ai_show", "ai_done"}

\* C15: one call of _call_gemini sends at most two requests, the first
\* with the search tool and a thinking budget of 2048; a second is sent
\* exactly when the first returned and its extracted text is empty, and
\* it has no tools and a thinking budget of 0; a request that raised is
\* the last one sent and ends the call with its exception; when both
\* texts are empty the call returns the placeholder, which is not empty.
C15_AtMostTwoRequests ==
    /\ Len(requests) <= 2
    /\ Len(requests) >= 1 =>
           /\ requests[1].thinking_budget = 2048
           /\ requests[1].tools = <<"google_search">>
    /\ Len(requests) = 2 =>
           /\ FirstEmpty
           /\ requests[2].thinking_budget = 0
           /\ requests[2].tools = <<>>
    /\ (CallOver /\ FirstEmpty) => Len(requests) = 2
    /\ \A k \in 1 .. Len(requests) :
           requests[k].outcome.raises =>
               /\ k = Len(requests)
               /\ pc \in {"ai_except", "ai_show", "ai_done"}
    /\ (CallOver /\ Len(requests) = 2 /\ ~requests[2].outcome.raises
           /\ _extract_text(requests[2].outcome.response) = <<>>) =>
           analysis = NoAnalysis /\ Len(analysis) > 0

\* both requests returned a response without text: the second was the
\* fallback and the placeholder is what the call returned
C15_Witness ==
    /\ pc = "ai_store"
    /\ Len(requests) = 2
    /\ ~requests[2].outcome.raises
    /\ _extract_text(requests[1].outcome.response) = <<>>
    /\ requests[2].outcome.response.is_none
    /\ analysis = NoAnalysis

\* a request of this run raised
Failed == \E k \in 1 .. Len(requests) : requests[k].outcome.raises

StoredAnalysis == <<session_state.rec_ai_analysis, session_state.rec_ai_items>>

\* C16: when a request to the summarization service raises, the page
\* shows an error holding the message of the exception and goes on to its
\* end; rec_ai_analysis and rec_ai_items are written by the step that
\* stores a returned analysis and by no other, that step is never taken
\* in a run where a request raised and no request follows it; and an
\* analysis stored before the run is shown after the error.
C16_FailureKeepsAnalysis ==
    /\ [](Failed =>
            /\ pc \in {"ai_except", "ai_show", "ai_done"}
            /\ pc \in {"ai_show", "ai_done"} =>
                   \E k \in 1 .. Len(st) :
                       st[k] = Message("error", "Gemini API error: "
                                   \o requests[Len(requests)].outcome.exc)
            /\ (pc = "ai_done" /\ session_state.rec_ai_analysis # None) =>
                   st[Len(st)].kind \in {"markdown", "selectbox"} /\
                   \E k \in 1 .. Len(st) :
                       st[k] = Message("markdown",
                                   AsString(session_state.rec_ai_analysis[1])))
    /\ [][/\ StoredAnalysis' # StoredAnalysis => pc = "ai_store"
          /\ pc \in {"ai_store", "ai_show", "ai_done"} => requests' = requests]_vars

\* a request raised while an analysis of an earlier run was stored: the
\* page has shown the error and then the stored analysis, still stored
C16_Witness ==
    /\ pc = "ai_done"
    /\ Failed
    /\ session_state.rec_ai_analysis = Some(OldAnalysis)
    /\ session_state.rec_ai_items = Some(<<<<"O", "l", "d">>>>)
    /\ st = <<Message("error", "Gemini API error: quota exceeded"),
              Message("markdown", AsString(OldAnalysis))>>

----------------------------------------------------------------------------
(* db.py: run_query.  An engine is a number; get_engine is cached by       *)
(* st.cache_resource, so it makes an engine only when none is cached.  An  *)
(* exception is the message it carries and the attempt that raised it.     *)

\* the most engines made: a call is started only while fewer were made
MaxEngines == 6

QueryErrors ==
    {"server closed the connection", "relation does not exist", "timeout"}

QueryResults == {"no rows", "rows"}

Exc(msg, attempt) == [msg |-> msg, attempt |-> attempt]

NoExc == Exc("", 0)

\* what pd.read_sql_query inside engine.connect() does at one attempt
QueryOutcomes(attempt) ==
    {[raises |-> TRUE, exc |-> Exc(m, attempt), result |-> ""] : m \in QueryErrors}
    \cup {[raises |-> FALSE, exc |-> NoExc, result |-> r] : r \in QueryResults}

NoOutcome == [raises |-> FALSE, exc |-> NoExc, result |-> ""]

Event(step, e, o) == [step |-> step, engine |-> e, outcome |-> o]

\* get_engine(): the cached engine, or a new one that is cached
get_engine(cache) ==
    IF cache.cached # 0 THEN cache
    ELSE [cache EXCEPT !.cached = cache.made + 1, !.made = cache.made + 1]

\* engine.dispose()
dispose(cache, e) == [cache EXCEPT !.disposed = @ \cup {e}]

\* get_engine.clear()
clear(cache) == [cache EXCEPT !.cached = 0]

\* a mutant: a bare raise, which raises the exception being handled
reraise_last(first, second) == second

\* raise exc, exc being the exception of the first attempt
reraise(first, second) == first

InitRunQuery ==
    /\ IdleCurrency /\ IdleFrames /\ IdleTrend /\ IdleLoad /\ IdleGemini
    /\ engine \in {[cached |-> 0, made |-> 0, disposed |-> {}],
                    [cached |-> 1, made |-> 1, disposed |-> {}]}
    /\ trace = <<>>
    /\ outcome = <<>>
    /\ IdleSettings
    /\ pc = "rq_start"

otherDbVars == <<currencyVars, frameVars, trendVars, loadVars, geminiVars,
                 settingsVars>>

\* engine = get_engine()
RunQueryGetEngine ==
    /\ pc = "rq_start"
    /\ engine' = get_engine(engine)
    /\ trace' = Append(trace, Event("get_engine", engine'.cached, NoOutcome))
    /\ pc' = "rq_first"
    /\ UNCHANGED <<otherDbVars, outcome>>

\* the first try: the result is returned, or the exception is caught
RunQueryFirst ==
    /\ pc = "rq_first"
    /\ \E o \in QueryOutcomes(1) :
           /\ trace' = Append(trace, Event("query", engine.cached, o))
           /\ IF o.raises THEN pc' = "rq_retry" /\ UNCHANGED outcome
              ELSE pc' = "rq_done" /\ outcome' = <<o>>
    /\ UNCHANGED <<otherDbVars, engine>>

\* engine.dispose(); get_engine.clear(); engine = get_engine()
RunQueryRecreate ==
    /\ pc = "rq_retry"
    /\ engine' = get_engine(clear(dispose(engine, engine.cached)))
    /\ trace' = trace \o <<Event("dispose", engine.cached, NoOutcome),
                           Event("clear", 0, NoOutcome),
                           Event("get_engine", engine'.cached, NoOutcome)>>
    /\ pc' = "rq_second"
    /\ UNCHANGED <<otherDbVars, outcome>>

\* the second try: the result is returned, or raise exc
RunQuerySecond ==
    /\ pc = "rq_second"
    /\ \E o \in QueryOutcomes(2) :
           /\ trace' = Append(trace, Event("query", engine.cached, o))
           /\ outcome' =
                  IF o.raises
                  THEN <<[o EXCEPT !.exc = reraise(trace[2].outcome.exc, o.exc)]>>
                  ELSE <<o>>
    /\ pc' = "rq_done"
    /\ UNCHANGED <<otherDbVars, engine>>

\* the next call of run_query, in the same server process
RunQueryAgain ==
    /\ pc = "rq_done"
    /\ engine.made < MaxEngines
    /\ trace' = <<>>
    /\ outcome' = <<>>
    /\ pc' = "rq_start"
    /\ UNCHANGED <<otherDbVars, engine>>

NextRunQuery ==
    \/ RunQueryGetEngine \/ RunQueryFirst \/ RunQueryRecreate
    \/ RunQuerySecond \/ RunQueryAgain

SpecRunQuery == InitRunQuery /\ [][NextRunQuery]_vars

\* the positions of the trace at which the query ran
QueryAt == {k \in 1 .. Len(trace) : trace[k].step = "query"}

\* C18: one call of run_query runs the query at most twice.  A second
\* run comes only after the first raised and the engine of the first was
\* disposed, the cache cleared and a new engine made, in this order, and
\* it uses the new engine.  A call whose first run raised does run the
\* query again; the result of the run that succeeded is returned, and
\* when both raised the caller gets the exception of the first.
C18_RetryOnce ==
    /\ Cardinality(QueryAt) <= 2
    /\ QueryAt \subseteq {2, 6}
    /\ 6 \in QueryAt =>
           /\ trace[2].step = "query" /\ trace[2].outcome.raises
           /\ trace[3] = Event("dispose", trace[2].engine, NoOutcome)
           /\ trace[4].step = "clear"
           /\ trace[5].step = "get_engine"
           /\ trace[5].engine \notin {0, trace[2].engine}
           /\ trace[6].engine = trace[5].engine
           /\ trace[2].engine \in engine.disposed
           /\ trace[6].engine \notin engine.disposed
    /\ pc = "rq_done" =>
           /\ Len(outcome) = 1
           /\ trace[2].outcome.raises <=> 6 \in QueryAt
           /\ ~trace[2].outcome.raises => outcome[1] = trace[2].outcome
           /\ (6 \in QueryAt /\ ~trace[6].outcome.raises) =>
                  outcome[1] = trace[6].outcome
           /\ (6 \in QueryAt /\ trace[6].outcome.raises) =>
                  /\ outcome[1].raises
                  /\ outcome[1].exc = trace[2].outcome.exc
                  /\ outcome[1].exc.attempt = 1

\* both attempts raised, with different messages, and the caller got the
\* exception of the first
C18_Witness ==
    /\ pc = "rq_done"
    /\ Len(trace) = 6
    /\ trace[2].outcome.raises /\ trace[6].outcome.raises
    /\ trace[2].outcome.exc.msg = "server closed the connection"
    /\ trace[6].outcome.exc.msg = "relation does not exist"
    /\ outcome[1].exc = Exc("server closed the connection", 1)

----------------------------------------------------------------------------
(* settings.py: the calls on the settings file.                            *)

InitSettings ==
    /\ IdleCurrency /\ IdleFrames /\ IdleTrend /\ IdleLoad /\ IdleGemini /\ IdleDb
    /\ file \in Files
    /\ loaded = <<>>
    /\ pc = "settings"

otherSettingsVars == <<currencyVars, frameVars, trendVars, loadVars,
                       geminiVars, dbVars>>

\* load_settings(): loaded holds the file the call found and its outcome
LoadSettings ==
    /\ pc \in {"settings", "settings_loaded", "settings_saved"}
    /\ file' = _ensure_file(file)
    /\ loaded' = [found |-> file] @@ load(file')
    /\ pc' = "settings_loaded"
    /\ UNCHANGED otherSettingsVars

\* save_settings(data)
SaveSettings ==
    /\ pc \in {"settings", "settings_loaded", "settings_saved"}
    /\ \E data \in Dicts : file' = File("object", data)
    /\ pc' = "settings_saved"
    /\ UNCHANGED <<otherSettingsVars, loaded>>

NextSettings == LoadSettings \/ SaveSettings

SpecSettings == InitSettings /\ [][NextSettings]_vars

\* C20: whatever the file was, load_settings raises nothing and returns a
\* dict with every default key; a key of the dict in the file has its
\* value there and a key missing from it has its default; a file that
\* cannot be parsed gives the defaults and nothing else; and a file that
\* existed is left as it was.
C20_LoadSettings ==
    pc = "settings_loaded" =>
        /\ loaded.raised = ""
        /\ \A k \in {"timezone", "gemini_api_key"} : loaded.data[k] # None
        /\ loaded.found.kind = "object" =>
               \A k \in DOMAIN loaded.data :
                   loaded.data[k] = IF loaded.found.data[k] # None
                                    THEN loaded.found.data[k] ELSE _DEFAULTS[k]
        /\ loaded.found.kind \in {"missing", "invalid", "undecodable"} =>
               loaded.data = _DEFAULTS
        /\ loaded.found.kind # "missing" => file = loaded.found

----------------------------------------------------------------------------
\* the settings file the page found holds no key: it is missing or cannot
\* be read as a dict, or its dict has no gemini_api_key or an empty one
NoKeyConfigured ==
    \/ loaded.found.kind # "object"
    \/ loaded.found.data.gemini_api_key \in {None, Some("")}

\* no batch was loaded, no request was sent, session state is as it was
NothingDone ==
    /\ df = <<>>
    /\ snapshot = <<>>
    /\ requests = <<>>
    /\ session_state \in SessionStates

\* a request was sent only with a key, the button pressed and a batch of
\* at least one row
RequestOnlyWhenAsked ==
    requests # <<>> =>
        /\ api_key # ""
        /\ button
        /\ ~signals.raises
        /\ Len(df) > 0

\* C21: once the page has read the settings and found no key, it is at
\* its warning or has returned after it, having shown nothing but that
\* warning, loaded no batch, sent no request and left session state as it
\* was; and in every run a request is sent only when the key is not
\* empty, the button was pressed and the loaded batch has a row.
C21_NoKeyNoRequest ==
    /\ (pc # "ai_get" /\ NoKeyConfigured) =>
           /\ pc \in {"ai_start", "ai_done"}
           /\ pc = "ai_done" => Len(st) = 1 /\ st[1].kind = "warning"
           /\ NothingDone
    /\ RequestOnlyWhenAsked

\* what is left of C21 when the page is let raise on a settings file that
\* load_settings cannot handle
C21_Safety ==
    /\ (pc # "ai_get" /\ NoKeyConfigured) =>
           /\ pc \in {"ai_start", "ai_done", "raised"}
           /\ pc = "raised" => loaded.found.kind \in {"array", "undecodable"}
           /\ pc = "ai_done" => Len(st) = 1 /\ st[1].kind = "warning"
           /\ pc = "raised" => st = <<>>
           /\ NothingDone
    /\ RequestOnlyWhenAsked

====
